---- MODULE Spec2Model ----
(***************************************************************************)
(* Model of the hn-backend pipeline: the record store layer                *)
(* (database/db_layer.py), the forum item fetcher                          *)
(* (services/hn_api_service.py), the ingestion workflow                    *)
(* (services/cron_service.py) and the extraction workflow                  *)
(* (services/processing_service.py).                                       *)
(*                                                                         *)
(* Python's None is the string NULL; optional values are strings so that   *)
(* they compare with NULL.  A store table maps a forum ID to the sequence  *)
(* of rows stored under it (two rows under one ID is a duplicate).         *)
(***************************************************************************)
EXTENDS Integers, Sequences, FiniteSets, TLC

VARIABLES stories, comments, ing, runs, llm_calls, last, http

vars == <<stories, comments, ing, runs, llm_calls, last, http>>

\* ------------------------------------------------------------------ bounds
\* forum IDs of stories given to create_story
MaxStories == 2
\* forum IDs of the hiring threads given to the ingestion workflow
MaxThreads == 1
\* forum IDs of comments
MaxComments == 3
\* forum IDs of the comments ingested for the extraction workflow
MaxPending == 2
\* bulk extraction invocations that can be in progress
MaxRuns == 2
\* LLM calls in one behaviour
MaxLLMCalls == 2

\* default of get_pending_comments(limit)
PendingLimit == 1000

NULL == "null"
StoryIds == 1..MaxStories
\* the hiring threads the ingestion runs are asked for
ThreadIds == 1..MaxThreads
HnIds == 1..MaxComments
Runs == 1..MaxRuns
Titles == {"t1", "t2"}

\* the structured payloads the extraction can produce, and their email field
Payloads == {"job_no_email", "job_with_email"}
EmailOf(p) == IF p = "job_with_email" THEN "jobs@x.com" ELSE NULL

RECURSIVE SeqsOver(_, _)
\* the sequences over S of length at most n
SeqsOver(S, n) ==
    IF n = 0 THEN {<<>>}
    ELSE LET shorter == SeqsOver(S, n - 1)
         IN shorter \cup {Append(q, x) : q \in {t \in shorter : Len(t) = n - 1},
                                          x \in S}

Range(q) == {q[k] : k \in 1..Len(q)}
Ascending(q) == \A k \in 1..(Len(q) - 1) : q[k] < q[k + 1]
\* the lists of comment IDs a story's kids can be: distinct IDs, taken in
\* ascending order (the fetch loop and the insert treat the IDs alike, so
\* another order is a renaming of one of these)
IdLists == {q \in SeqsOver(HnIds, MaxComments) : Ascending(q)}

\* ------------------------------------------------------------ record store
\* whether a row is stored under forum ID h
Stored(tbl, h) == Len(tbl[h]) > 0
EmptyComments == [h \in HnIds |-> <<>>]

\* the comments table has a unique constraint on hn_id: create_comment's
\* on_conflict='hn_id' names it as the conflict target
UniqueHnId == TRUE

NoStory == [id |-> 0, hn_id |-> 0, title |-> NULL]

create_story_always_inserts(tbl, hn_id, title, up) ==
    IF ~up THEN [raised |-> TRUE, ret |-> NoStory, stories |-> tbl]
    ELSE LET row == [id |-> Cardinality(tbl) + 1, hn_id |-> hn_id, title |-> title]
         IN [raised |-> FALSE, ret |-> row, stories |-> tbl \cup {row}]

\* HNDatabase.create_story: select by hn_id, return the existing row, else insert
create_story(tbl, hn_id, title, up) ==
    IF ~up THEN [raised |-> TRUE, ret |-> NoStory, stories |-> tbl]
    ELSE LET found == {s \in tbl : s.hn_id = hn_id}
         IN IF found # {}
            THEN [raised |-> FALSE,
                  ret |-> CHOOSE s \in found : \A t \in found : s.id <= t.id,
                  stories |-> tbl]
            ELSE LET row == [id |-> Cardinality(tbl) + 1, hn_id |-> hn_id,
                             title |-> title]
                 IN [raised |-> FALSE, ret |-> row, stories |-> tbl \cup {row}]

\* the row shape create_comment and the ingestion mapping store
CommentRow(hn_id, story_id) ==
    [hn_id |-> hn_id, story_id |-> story_id, processed_status |-> "pending",
     structured_data |-> NULL, email |-> NULL]

\* HNDatabase.create_comment: upsert on_conflict=hn_id, ignore_duplicates=True.
\* The store returns the rows it inserted; for a duplicate it inserts and
\* returns none, and the empty response is raised as "Failed to create comment".
create_comment(tbl, hn_id, story_id, up) ==
    IF ~up THEN [raised |-> TRUE, comments |-> tbl]
    ELSE IF UniqueHnId /\ Stored(tbl, hn_id)
         THEN [raised |-> TRUE, comments |-> tbl]
         ELSE [raised |-> FALSE,
               comments |-> [tbl EXCEPT ![hn_id] =
                                Append(@, CommentRow(hn_id, story_id))]]

RECURSIVE InsertAll(_, _)
InsertAll(tbl, rows) ==
    IF rows = <<>> THEN tbl
    ELSE InsertAll([tbl EXCEPT ![Head(rows).hn_id] = Append(@, Head(rows))],
                   Tail(rows))

RowIds(rows) == {rows[k].hn_id : k \in 1..Len(rows)}

\* HNDatabase.batch_create_comments: one plain insert of the whole list; a
\* unique violation rejects the statement, which is raised as DatabaseError
batch_create_comments(tbl, rows, up) ==
    IF rows = <<>> THEN [raised |-> FALSE, ret |-> 0, comments |-> tbl]
    ELSE IF ~up THEN [raised |-> TRUE, ret |-> 0, comments |-> tbl]
    ELSE IF UniqueHnId /\ (\/ \E h \in RowIds(rows) : Stored(tbl, h)
                           \/ Cardinality(RowIds(rows)) # Len(rows))
         THEN [raised |-> TRUE, ret |-> 0, comments |-> tbl]
         ELSE [raised |-> FALSE, ret |-> Len(rows), comments |-> InsertAll(tbl, rows)]

\* ------------------------------------------------------------ item fetcher
\* what GET /item/{id}.json answers for a comment: a well-formed comment, a
\* comment failing the shape validation, a deleted item, JSON null, a 404, a
\* transport failure, another error status (5xx)
CommentKinds == {"ok", "invalid", "deleted", "null", "notfound", "transport",
                 "http_error"}
StoryKinds == {"ok", "invalid", "null", "notfound", "transport", "http_error"}

NoPayload == [present |-> FALSE, id |-> 0, deleted |-> FALSE, wellformed |-> FALSE]

\* the JSON body of a 200 answer
Body(id, kind) ==
    CASE kind = "ok" -> [present |-> TRUE, id |-> id, deleted |-> FALSE,
                         wellformed |-> TRUE]
      [] kind = "invalid" -> [present |-> TRUE, id |-> id, deleted |-> FALSE,
                              wellformed |-> FALSE]
      [] kind = "deleted" -> [present |-> TRUE, id |-> id, deleted |-> TRUE,
                              wellformed |-> TRUE]
      [] OTHER -> NoPayload

\* HNAPIService.fetch_comment: 404 and httpx.RequestError become HNAPIError;
\* raise_for_status raises httpx.HTTPStatusError, which is no RequestError
\* and leaves the function as it is; an empty body is returned as None
fetch_comment(comment_id, kind) ==
    CASE kind = "notfound" -> [exc |-> "HNAPIError", ret |-> NoPayload]
      [] kind = "transport" -> [exc |-> "HNAPIError", ret |-> NoPayload]
      [] kind = "http_error" -> [exc |-> "HTTPStatusError", ret |-> NoPayload]
      [] OTHER -> [exc |-> "none", ret |-> Body(comment_id, kind)]

\* HNAPIService.fetch_story: the same handling
fetch_story(story_id, kind) ==
    CASE kind = "notfound" -> [exc |-> "HNAPIError", ret |-> NoPayload]
      [] kind = "transport" -> [exc |-> "HNAPIError", ret |-> NoPayload]
      [] kind = "http_error" -> [exc |-> "HTTPStatusError", ret |-> NoPayload]
      [] OTHER -> [exc |-> "none", ret |-> Body(story_id, kind)]

batch_iteration_keeps_absent(valid_comments, comment_id, kind) ==
    LET r == fetch_comment(comment_id, kind)
    IN IF r.exc = "HNAPIError"
       THEN [aborted |-> FALSE, valid_comments |-> valid_comments]
       ELSE IF r.exc # "none"
       THEN [aborted |-> TRUE, valid_comments |-> valid_comments]
       ELSE IF r.ret.present /\ r.ret.deleted = TRUE
       THEN [aborted |-> FALSE, valid_comments |-> valid_comments]
       ELSE [aborted |-> FALSE, valid_comments |-> Append(valid_comments, r.ret)]

batch_iteration_keeps_deleted(valid_comments, comment_id, kind) ==
    LET r == fetch_comment(comment_id, kind)
    IN IF r.exc = "HNAPIError"
       THEN [aborted |-> FALSE, valid_comments |-> valid_comments]
       ELSE IF r.exc # "none"
       THEN [aborted |-> TRUE, valid_comments |-> valid_comments]
       ELSE IF ~r.ret.present
       THEN [aborted |-> FALSE, valid_comments |-> valid_comments]
       ELSE [aborted |-> FALSE, valid_comments |-> Append(valid_comments, r.ret)]

\* one iteration of HNAPIService.fetch_comments_batch: the except clauses
\* catch ValidationError and HNAPIError only
batch_iteration(valid_comments, comment_id, kind) ==
    LET r == fetch_comment(comment_id, kind)
    IN IF r.exc = "HNAPIError"
       THEN [aborted |-> FALSE, valid_comments |-> valid_comments]
       ELSE IF r.exc # "none"
       THEN [aborted |-> TRUE, valid_comments |-> valid_comments]
       ELSE IF ~r.ret.present
       THEN [aborted |-> FALSE, valid_comments |-> valid_comments]
       ELSE IF r.ret.deleted = TRUE
       THEN [aborted |-> FALSE, valid_comments |-> valid_comments]
       ELSE [aborted |-> FALSE, valid_comments |-> Append(valid_comments, r.ret)]

\* ------------------------------------------------------- ingestion workflow
\* HNCommentResponse(**comment): the shape validation of a comment payload
HNCommentResponse(payload) == payload.wellformed

\* DatabaseCommentData.from_hn_comment(...).model_dump(): the storage record
from_hn_comment(payload, story_db_id) == CommentRow(payload.id, story_db_id)

NoSummary == [story_id |-> 0, story_db_id |-> 0, story_saved |-> FALSE,
              comments_fetched |-> 0, comments_saved |-> 0]

IngIdle == [pc |-> "idle", story_id |-> 0, story_db_id |-> 0, kids |-> <<>>,
            i |-> 0, valid_comments |-> <<>>, responses |-> <<>>,
            raised_at |-> NULL, summary |-> NoSummary]

Raised(story_id, where) ==
    [IngIdle EXCEPT !.pc = "raised", !.story_id = story_id, !.raised_at = where]

\* the part of process_hiring_thread after fetch_comments_batch returned:
\* validate and map each payload, bulk insert, build the summary.  Any
\* exception is re-raised as HNAPIError; where: the step that raised.
persist_comments(tbl, raw_comments, story_id, story_db_id, up) ==
    IF \E k \in 1..Len(raw_comments) : ~HNCommentResponse(raw_comments[k])
    THEN [raised |-> TRUE, where |-> "validate_comment", summary |-> NoSummary,
          comments |-> tbl]
    ELSE LET validated_comments ==
                 [k \in 1..Len(raw_comments) |->
                     from_hn_comment(raw_comments[k], story_db_id)]
             b == batch_create_comments(tbl, validated_comments, up)
         IN IF b.raised
            THEN [raised |-> TRUE, where |-> "batch_create_comments",
                  summary |-> NoSummary, comments |-> tbl]
            ELSE [raised |-> FALSE, where |-> NULL,
                  summary |-> [story_id |-> story_id, story_db_id |-> story_db_id,
                               story_saved |-> TRUE,
                               comments_fetched |-> Len(validated_comments),
                               comments_saved |-> b.ret],
                  comments |-> b.comments]

\* the last call and what it returned: its arguments (hn_id, title, ids,
\* status, up: whether the store answered, fault: which store writes failed),
\* whether it raised, its return value, the store writes it attempted
NoError == [msg |-> NULL, id |-> 0]
NoLast == [op |-> "init", hn_id |-> 0, title |-> NULL, ids |-> <<>>, up |-> TRUE,
           raised |-> FALSE, ret_story |-> NoStory, ret_count |-> 0,
           success |-> FALSE, error |-> NoError, extracted |-> NULL,
           database_updated |-> FALSE, status |-> NULL, fault |-> "none",
           attempts |-> 0]

\* the HTTP boundary (routers/stories.py): the endpoint invocation in progress
\* or returned last.  pool: the forum-API connection pool of the invocation
\* (none, open, closed); outcome: none while the endpoint runs, returned with
\* a body (success, error), or uncaught when an exception left the endpoint;
\* failed: whether the workflow the endpoint triggered failed
HttpIdle == [pc |-> "idle", endpoint |-> NULL, hn_id |-> 0, pool |-> "none",
             outcome |-> "none", success |-> FALSE, error |-> NULL,
             failed |-> FALSE]

RunIdle == [pc |-> "idle", pending_comments |-> <<>>, i |-> 0,
            processed_count |-> 0, successful_count |-> 0, failed_count |-> 0,
            errors |-> 0]

Init ==
    /\ stories = {}
    /\ comments = EmptyComments
    /\ ing = IngIdle
    /\ runs = [r \in Runs |-> RunIdle]
    /\ llm_calls = 0
    /\ last = NoLast
    /\ http = HttpIdle

\* the title the forum API gives for a story
TitleOf(story_id) == "t1"

\* process_hiring_thread up to its call of fetch_comments_batch: fetch the
\* story, validate it, persist it idempotently
ProcessHiringThread(story_id, kind, kids, up) ==
    /\ ing.pc \in {"idle", "done", "raised"}
    /\ LET f == fetch_story(story_id, kind)
           c == create_story(stories, story_id, TitleOf(story_id), up)
       IN IF f.exc # "none"
          THEN /\ ing' = Raised(story_id, "fetch_story")
               /\ UNCHANGED stories
          ELSE IF ~f.ret.present \/ ~f.ret.wellformed
          THEN /\ ing' = Raised(story_id, "validate_story")
               /\ UNCHANGED stories
          ELSE IF c.raised
          THEN /\ ing' = Raised(story_id, "create_story")
               /\ UNCHANGED stories
          ELSE /\ stories' = c.stories
               /\ ing' = [IngIdle EXCEPT !.pc = "fetching", !.story_id = story_id,
                                         !.story_db_id = c.ret.id,
                                         !.kids = kids, !.i = 1]
    /\ UNCHANGED <<comments, runs, llm_calls, last, http>>

\* what the forum API answered, as logged per fetched ID: a present,
\* non-deleted payload, a deleted item, no item (null, 404, transport failure)
ResponseClass(kind) ==
    CASE kind \in {"ok", "invalid"} -> "payload"
      [] kind = "deleted" -> "deleted"
      [] OTHER -> "none"

\* one iteration of the loop of fetch_comments_batch, called on hn_story.kids
FetchCommentsBatchStep(kind) ==
    /\ ing.pc = "fetching"
    /\ ing.i <= Len(ing.kids)
    /\ LET id == ing.kids[ing.i]
           r == batch_iteration(ing.valid_comments, id, kind)
       IN ing' = IF r.aborted
                 THEN Raised(ing.story_id, "fetch_comments_batch")
                 ELSE [ing EXCEPT !.i = @ + 1,
                                  !.valid_comments = r.valid_comments,
                                  !.responses = Append(@, ResponseClass(kind))]
    /\ UNCHANGED <<stories, comments, runs, llm_calls, last, http>>

\* fetch_comments_batch has returned: validate, bulk insert, return the summary
ProcessHiringThreadFinish(up) ==
    /\ ing.pc = "fetching"
    /\ ing.i > Len(ing.kids)
    /\ LET p == persist_comments(comments, ing.valid_comments, ing.story_id,
                                 ing.story_db_id, up)
       IN /\ comments' = p.comments
          /\ ing' = IF p.raised
                    THEN Raised(ing.story_id, p.where)
                    ELSE [ing EXCEPT !.pc = "done", !.valid_comments = <<>>,
                                     !.summary = p.summary]
    /\ UNCHANGED <<stories, runs, llm_calls, last, http>>

Next ==
    \/ \E s \in ThreadIds, kind \in StoryKinds, kids \in IdLists, up \in BOOLEAN :
          ProcessHiringThread(s, kind, kids, up)
    \/ \E kind \in CommentKinds : FetchCommentsBatchStep(kind)
    \/ \E up \in BOOLEAN : ProcessHiringThreadFinish(up)

\* the ingestion workflow and the batch fetcher it drives
Spec == Init /\ [][Next]_vars

\* ----------------------------------------------- claims on the ingestion
\* the IDs fetch_comments_batch has fetched so far
Fetched == Range(SubSeq(ing.kids, 1, ing.i - 1))

\* C7 (as claimed): in fetch_comments_batch a failure while fetching a single
\* comment ID (not found, transport error, error HTTP status) is skipped and
\* the batch never aborts.
C7_BatchNeverAborts ==
    ~(ing.pc = "raised" /\ ing.raised_at = "fetch_comments_batch")

\* C8: the result of fetch_comments_batch holds no deleted and no absent
\* payload, every element is the payload of an ID of the input list, and the
\* result is no longer than the input.
C8_BatchResultFiltered ==
    ing.pc = "fetching" =>
        LET v == ing.valid_comments
        IN /\ \A k \in 1..Len(v) :
                 /\ v[k].present
                 /\ v[k].deleted # TRUE
                 /\ v[k].id \in Fetched
           /\ Len(v) <= ing.i - 1
           /\ Len(v) <= Len(ing.kids)
           /\ Len(v) = Cardinality({k \in 1..Len(ing.responses) :
                                       ing.responses[k] = "payload"})

\* a finished batch over three IDs that dropped a deleted and a missing item
C8_Witness ==
    /\ ing.pc = "fetching"
    /\ ing.i > Len(ing.kids)
    /\ ing.responses = <<"deleted", "payload", "none">>
    /\ Len(ing.valid_comments) = 1

\* the IDs of the kids whose fetch answered with a present, non-deleted payload
AnsweredKids(g) ==
    {g.kids[k] : k \in {j \in 1..Len(g.kids) : g.responses[j] = "payload"}}

\* C9: a successful ingestion run on a store holding none of the story's
\* comments persists exactly the kids whose fetch answered with a present,
\* non-deleted payload, each pending and linked to the internal ID of the
\* persisted story, and reports comments_fetched = comments_saved = their number.
C9_IngestPersistsAnswered ==
    [][(/\ ing.pc = "fetching"
        /\ ing'.pc = "done"
        /\ \A h \in Range(ing.kids) : ~Stored(comments, h))
       => LET ids == AnsweredKids(ing)
              story == CHOOSE t \in stories : t.hn_id = ing.story_id
          IN /\ \E t \in stories : t.hn_id = ing.story_id
             /\ \A h \in HnIds :
                   comments'[h] = IF h \in ids
                                  THEN <<[hn_id |-> h, story_id |-> story.id,
                                          processed_status |-> "pending",
                                          structured_data |-> NULL,
                                          email |-> NULL]>>
                                  ELSE comments[h]
             /\ ing'.summary.comments_fetched = Cardinality(ids)
             /\ ing'.summary.comments_saved = Cardinality(ids)
             /\ ing'.summary.story_db_id = story.id
             /\ ing'.summary.story_saved]_vars

\* kids = [1,2,3] with item 2 deleted: exactly two comments persisted
C9_Witness ==
    /\ ing.pc = "done"
    /\ ing.kids = <<1, 2, 3>>
    /\ ing.responses = <<"payload", "deleted", "payload">>
    /\ ing.summary.comments_saved = 2
    /\ ing.summary.comments_fetched = 2
    /\ Stored(comments, 1) /\ ~Stored(comments, 2) /\ Stored(comments, 3)
    /\ comments[1][1].processed_status = "pending"
    /\ comments[3][1].processed_status = "pending"

\* C15 (as claimed): a fetched comment payload that fails the shape
\* validation is dropped silently: it does not abort the ingestion workflow.
C15_InvalidPayloadDropped ==
    ~(ing.pc = "raised" /\ ing.raised_at = "validate_comment")

\* ------------------------------------------------- direct store calls
\* a call of HNDatabase.create_story
CreateStory(hn_id, title, up) ==
    /\ LET c == create_story(stories, hn_id, title, up)
       IN /\ stories' = c.stories
          /\ last' = [NoLast EXCEPT !.op = "create_story", !.hn_id = hn_id,
                                    !.title = title, !.up = up,
                                    !.raised = c.raised, !.ret_story = c.ret]
    /\ UNCHANGED <<comments, ing, runs, llm_calls, http>>

\* a call of HNDatabase.get_story_by_hn_id
GetStoryByHnId(hn_id, up) ==
    /\ LET found == {s \in stories : s.hn_id = hn_id}
       IN last' = [NoLast EXCEPT
                      !.op = "get_story_by_hn_id", !.hn_id = hn_id, !.up = up,
                      !.raised = ~up,
                      !.ret_story = IF up /\ found # {}
                                    THEN CHOOSE s \in found :
                                            \A t \in found : s.id <= t.id
                                    ELSE NoStory]
    /\ UNCHANGED <<stories, comments, ing, runs, llm_calls, http>>

NextStories ==
    \/ \E h \in StoryIds, t \in Titles, up \in BOOLEAN : CreateStory(h, t, up)
    \/ \E h \in StoryIds, up \in BOOLEAN : GetStoryByHnId(h, up)

\* calls of create_story in any order
SpecStories == Init /\ [][NextStories]_vars

\* a call of HNDatabase.create_comment
CreateComment(hn_id, story_id, up) ==
    /\ LET c == create_comment(comments, hn_id, story_id, up)
       IN /\ comments' = c.comments
          /\ last' = [NoLast EXCEPT !.op = "create_comment", !.hn_id = hn_id,
                                    !.up = up, !.raised = c.raised]
    /\ UNCHANGED <<stories, ing, runs, llm_calls, http>>

\* a call of HNDatabase.batch_create_comments with the rows the ingestion
\* workflow builds for the IDs ids
BatchCreateComments(ids, story_id, up) ==
    /\ LET rows == [k \in 1..Len(ids) |-> CommentRow(ids[k], story_id)]
           b == batch_create_comments(comments, rows, up)
       IN /\ comments' = b.comments
          /\ last' = [NoLast EXCEPT !.op = "batch_create_comments", !.ids = ids,
                                    !.up = up, !.raised = b.raised,
                                    !.ret_count = b.ret]
    /\ UNCHANGED <<stories, ing, runs, llm_calls, http>>

NextComments ==
    \/ \E h \in HnIds, s \in StoryIds, up \in BOOLEAN : CreateComment(h, s, up)
    \/ \E ids \in IdLists, s \in StoryIds, up \in BOOLEAN :
          BatchCreateComments(ids, s, up)

\* calls of create_comment and batch_create_comments in any order
SpecComments == Init /\ [][NextComments]_vars

\* ------------------------------------------------------ extraction workflow
\* what the LLM call gives: a client exception, text that is no JSON, JSON of
\* another shape, or JSON of the expected shape
LLMOutcomes == {"api_error", "bad_json", "bad_shape"} \cup Payloads

\* ClaudeProcessingService._extract_job_data_with_claude: any exception of
\* the call, of json.loads or of the validation is caught and gives None
extract_job_data_with_claude(outcome) ==
    IF outcome \in Payloads THEN outcome ELSE NULL

update_comment_status_only_pending(tbl, comment_id, status, structured_data, up) ==
    IF ~up THEN [raised |-> TRUE, ret |-> FALSE, comments |-> tbl]
    ELSE LET upd(row) ==
                 IF row.processed_status # "pending" THEN row
                 ELSE [row EXCEPT
                          !.processed_status = status,
                          !.structured_data = structured_data,
                          !.email = IF structured_data # NULL
                                    THEN IF EmailOf(structured_data) # NULL
                                         THEN EmailOf(structured_data)
                                         ELSE @
                                    ELSE NULL]
         IN [raised |-> FALSE,
             ret |-> \E k \in 1..Len(tbl[comment_id]) :
                        tbl[comment_id][k].processed_status = "pending",
             comments |-> [tbl EXCEPT ![comment_id] =
                              [k \in 1..Len(@) |-> upd(@[k])]]]

\* HNDatabase.update_comment_status: the email column is written only when
\* the payload has an email, and cleared with the payload
update_comment_status(tbl, comment_id, status, structured_data, up) ==
    IF ~up THEN [raised |-> TRUE, ret |-> FALSE, comments |-> tbl]
    ELSE LET upd(row) ==
                 [row EXCEPT
                     !.processed_status = status,
                     !.structured_data = structured_data,
                     !.email = IF structured_data # NULL
                               THEN IF EmailOf(structured_data) # NULL
                                    THEN EmailOf(structured_data)
                                    ELSE @
                               ELSE NULL]
         IN [raised |-> FALSE,
             ret |-> Len(tbl[comment_id]) > 0,
             comments |-> [tbl EXCEPT ![comment_id] =
                              [k \in 1..Len(@) |-> upd(@[k])]]]

update_comment_with_results_returns_fallback(tbl, comment_id, structured_data, status, up1, up2) ==
    LET p == update_comment_status(tbl, comment_id, status, structured_data, up1)
        q == update_comment_status(tbl, comment_id, "error", NULL, up2)
    IN IF ~p.raised
       THEN [raised |-> FALSE, ret |-> p.ret, attempts |-> 1,
             comments |-> p.comments]
       ELSE [raised |-> q.raised, ret |-> q.ret, attempts |-> 2,
             comments |-> q.comments]

\* ClaudeProcessingService._update_comment_with_results: the write, and on
\* its failure one fallback write of status error with no payload, whose own
\* failure is logged.  raised: whether an exception leaves the function;
\* attempts: the calls of update_comment_status made
update_comment_with_results(tbl, comment_id, structured_data, status, up1, up2) ==
    LET p == update_comment_status(tbl, comment_id, status, structured_data, up1)
        q == update_comment_status(tbl, comment_id, "error", NULL, up2)
    IN IF ~p.raised
       THEN [raised |-> FALSE, ret |-> p.ret, attempts |-> 1,
             comments |-> p.comments]
       ELSE [raised |-> FALSE, ret |-> FALSE, attempts |-> 2,
             comments |-> q.comments]

\* HNDatabase.get_comments_by_hn_id
get_comments_by_hn_id(tbl, hn_id, up) ==
    IF ~up THEN [raised |-> TRUE, ret |-> <<>>]
    ELSE [raised |-> FALSE, ret |-> tbl[hn_id]]

RECURSIVE PendingFrom(_, _)
\* the pending rows stored under the forum IDs h, h+1, ...
PendingFrom(tbl, h) ==
    IF h > MaxComments THEN <<>>
    ELSE SelectSeq(tbl[h], LAMBDA row : row.processed_status = "pending")
         \o PendingFrom(tbl, h + 1)

Take(q, n) == SubSeq(q, 1, IF Len(q) < n THEN Len(q) ELSE n)

RECURSIVE RowsFrom(_, _)
RowsFrom(tbl, h) ==
    IF h > MaxComments THEN <<>> ELSE tbl[h] \o RowsFrom(tbl, h + 1)

get_pending_comments_any_status(tbl, up) ==
    IF ~up THEN [raised |-> TRUE, ret |-> <<>>]
    ELSE [raised |-> FALSE, ret |-> Take(RowsFrom(tbl, 1), PendingLimit)]

\* HNDatabase.get_pending_comments: the rows with status pending, at most limit
get_pending_comments(tbl, up) ==
    IF ~up THEN [raised |-> TRUE, ret |-> <<>>]
    ELSE [raised |-> FALSE, ret |-> Take(PendingFrom(tbl, 1), PendingLimit)]

NoResult == [success |-> FALSE, error |-> NoError, extracted_data |-> NULL,
             database_updated |-> FALSE]

process_single_comment_no_lookup_check(tbl, hn_id, outcome, up0, up1, up2) ==
    LET g == get_comments_by_hn_id(tbl, hn_id, up0)
    IN IF g.raised
       THEN [result |-> [NoResult EXCEPT
                            !.error = [msg |-> "Error fetching comments", id |-> 0]],
             comments |-> tbl, llm_called |-> FALSE]
       ELSE LET structured_data == extract_job_data_with_claude(outcome)
                u == update_comment_with_results(tbl, hn_id, structured_data,
                                                 "completed", up1, up2)
            IN [result |-> [success |-> TRUE, error |-> NoError,
                            extracted_data |-> structured_data,
                            database_updated |-> u.ret],
                comments |-> u.comments, llm_called |-> TRUE]

\* ClaudeProcessingService.process_single_comment: the update is called
\* without a status, so with _update_comment_with_results's default 'completed'
process_single_comment(tbl, hn_id, outcome, up0, up1, up2) ==
    LET g == get_comments_by_hn_id(tbl, hn_id, up0)
    IN IF g.raised
       THEN [result |-> [NoResult EXCEPT
                            !.error = [msg |-> "Error fetching comments", id |-> 0]],
             comments |-> tbl, llm_called |-> FALSE]
       ELSE IF g.ret = <<>>
       THEN [result |-> [NoResult EXCEPT
                            !.error = [msg |-> "No comment found with HN ID",
                                       id |-> hn_id]],
             comments |-> tbl, llm_called |-> FALSE]
       ELSE LET comment == g.ret[1]
                structured_data == extract_job_data_with_claude(outcome)
                u == update_comment_with_results(tbl, comment.hn_id,
                                                 structured_data, "completed",
                                                 up1, up2)
            IN IF u.raised
               THEN [result |-> [NoResult EXCEPT
                                    !.error = [msg |-> "Error updating comment",
                                               id |-> 0]],
                     comments |-> u.comments, llm_called |-> TRUE]
               ELSE [result |-> [success |-> TRUE, error |-> NoError,
                                 extracted_data |-> structured_data,
                                 database_updated |-> u.ret],
                     comments |-> u.comments, llm_called |-> TRUE]

process_one_pending_counts_unwritten(tbl, run, comment, outcome, up1, up2) ==
    LET structured_data == extract_job_data_with_claude(outcome)
        u == update_comment_with_results(tbl, comment.hn_id, structured_data,
                                         IF structured_data = NULL THEN "error"
                                         ELSE "completed", up1, up2)
    IN [value |-> u.ret, extracted |-> structured_data, comments |-> u.comments,
        run |-> IF structured_data = NULL
                THEN [run EXCEPT !.i = @ + 1, !.failed_count = @ + 1]
                ELSE [run EXCEPT !.i = @ + 1, !.successful_count = @ + 1]]

\* one iteration of the loop of process_pending_comments, on the fetched row
\* comment: extract, write error or completed, count; an exception of the
\* iteration is appended to errors and the loop goes on
process_one_pending(tbl, run, comment, outcome, up1, up2) ==
    LET structured_data == extract_job_data_with_claude(outcome)
    IN IF structured_data = NULL
       THEN LET u == update_comment_with_results(tbl, comment.hn_id, NULL,
                                                 "error", up1, up2)
            IN [value |-> u.ret, extracted |-> NULL, comments |-> u.comments,
                run |-> IF u.raised
                        THEN [run EXCEPT !.i = @ + 1, !.errors = @ + 1]
                        ELSE [run EXCEPT !.i = @ + 1, !.failed_count = @ + 1]]
       ELSE LET u == update_comment_with_results(tbl, comment.hn_id,
                                                 structured_data, "completed",
                                                 up1, up2)
            IN [value |-> u.ret, extracted |-> structured_data,
                comments |-> u.comments,
                run |-> IF u.raised
                        THEN [run EXCEPT !.i = @ + 1, !.errors = @ + 1]
                        ELSE IF u.ret
                        THEN [run EXCEPT !.i = @ + 1, !.successful_count = @ + 1]
                        ELSE [run EXCEPT !.i = @ + 1, !.failed_count = @ + 1]]

\* which of the store writes of one _update_comment_with_results call fail:
\* none, the status write, or the status write and the fallback write
WriteFaults == {"none", "primary", "both"}
Up1(f) == f = "none"
Up2(f) == f # "both"

\* the IDs of the comments the extraction runs work on
PendingIds == 1..MaxPending
PendingLists == {q \in IdLists : Range(q) \subseteq PendingIds /\ q # <<>>}

\* a successful run of process_hiring_thread for thread 1 whose kids ids all
\* answered with a well-formed comment
IngestThread(ids) ==
    /\ LET c == create_story(stories, 1, TitleOf(1), TRUE)
           p == persist_comments(comments,
                                 [k \in 1..Len(ids) |-> Body(ids[k], "ok")],
                                 1, c.ret.id, TRUE)
       IN /\ ~p.raised
          /\ stories' = c.stories
          /\ comments' = p.comments
    /\ last' = [NoLast EXCEPT !.op = "process_hiring_thread"]
    /\ UNCHANGED <<ing, runs, llm_calls, http>>

\* process_pending_comments, invocation r, up to its loop: fetch the pending
\* comments.  A failure of the fetch leaves the function as DatabaseError.
BulkStart(r, up) ==
    /\ runs[r].pc # "running"
    /\ LET g == get_pending_comments(comments, up)
       IN runs' = [runs EXCEPT ![r] =
                      IF g.raised THEN [RunIdle EXCEPT !.pc = "raised"]
                      ELSE [RunIdle EXCEPT !.pc = "running", !.i = 1,
                                           !.pending_comments = g.ret]]
    /\ last' = [NoLast EXCEPT !.op = "get_pending_comments"]
    /\ UNCHANGED <<stories, comments, ing, llm_calls, http>>

\* one iteration of the loop of invocation r
BulkStep(r, outcome, f) ==
    /\ runs[r].pc = "running"
    /\ runs[r].i <= Len(runs[r].pending_comments)
    /\ llm_calls < MaxLLMCalls
    /\ LET comment == runs[r].pending_comments[runs[r].i]
           o == process_one_pending(comments, runs[r], comment, outcome,
                                    Up1(f), Up2(f))
       IN /\ comments' = o.comments
          /\ runs' = [runs EXCEPT ![r] = o.run]
          /\ last' = [NoLast EXCEPT !.op = "process_pending_comments",
                                    !.hn_id = comment.hn_id,
                                    !.extracted = o.extracted,
                                    !.database_updated = o.value,
                                    !.fault = f]
    /\ llm_calls' = llm_calls + 1
    /\ UNCHANGED <<stories, ing, http>>

\* invocation r returns its counters
BulkFinish(r) ==
    /\ runs[r].pc = "running"
    /\ runs[r].i > Len(runs[r].pending_comments)
    /\ runs' = [runs EXCEPT ![r].pc = "done", ![r].pending_comments = <<>>,
                            ![r].i = 0]
    /\ last' = [NoLast EXCEPT !.op = "process_pending_comments_return"]
    /\ UNCHANGED <<stories, comments, ing, llm_calls, http>>

\* a call of process_single_comment
ProcessSingleComment(hn_id, outcome, up0, f) ==
    /\ llm_calls < MaxLLMCalls
    /\ LET o == process_single_comment(comments, hn_id, outcome, up0,
                                       Up1(f), Up2(f))
       IN /\ comments' = o.comments
          /\ llm_calls' = IF o.llm_called THEN llm_calls + 1 ELSE llm_calls
          /\ last' = [NoLast EXCEPT !.op = "process_single_comment",
                                    !.hn_id = hn_id, !.up = up0,
                                    !.success = o.result.success,
                                    !.error = o.result.error,
                                    !.extracted = o.result.extracted_data,
                                    !.database_updated = o.result.database_updated]
    /\ UNCHANGED <<stories, ing, runs, http>>

\* no bulk invocation is inside its loop
Quiet == \A r \in Runs : runs[r].pc # "running"

\* The endpoints are coroutines that call the synchronous service methods
\* without awaiting: inside one server process an invocation runs to its end
\* before the next one starts.
NextExtract ==
    \/ Quiet /\ \E ids \in PendingLists : IngestThread(ids)
    \/ Quiet /\ \E up \in BOOLEAN : BulkStart(1, up)
    \/ \E outcome \in LLMOutcomes, f \in WriteFaults : BulkStep(1, outcome, f)
    \/ BulkFinish(1)
    \/ Quiet /\ \E h \in HnIds, outcome \in LLMOutcomes, up0 \in BOOLEAN,
                   f \in WriteFaults : ProcessSingleComment(h, outcome, up0, f)

\* ingestion of a thread, bulk extraction and single-comment extraction
\* invocations, one after the other in any order
SpecExtract == Init /\ [][NextExtract]_vars

\* ------------------------------------------------ claims on the store layer
\* C4 (as claimed): batch_create_comments with a list that contains a forum ID
\* already persisted does not raise, creates no second record for that ID,
\* inserts the other comments of the list and counts only the new ones.
C4_BatchSkipsDuplicates ==
    [][(/\ last'.op = "batch_create_comments"
        /\ last'.up
        /\ \E h \in Range(last'.ids) : Stored(comments, h))
       => /\ ~last'.raised
          /\ \A h \in HnIds : Len(comments'[h]) <= 1
          /\ \A h \in Range(last'.ids) : Stored(comments', h)
          /\ last'.ret_count =
                Cardinality({h \in Range(last'.ids) : ~Stored(comments, h)})]_vars

\* C5 (as claimed): create_comment with a forum ID that is already stored is a
\* no-op that raises no error and leaves the existing record unchanged.
C5_CreateCommentConflictTolerant ==
    [][(/\ last'.op = "create_comment"
        /\ last'.up
        /\ Stored(comments, last'.hn_id))
       => /\ ~last'.raised
          /\ comments' = comments]_vars

\* C6: create_story called again with a forum ID returns the record the first
\* call stored, fields unchanged, and the store never holds two story records
\* with one forum ID.
C6_CreateStoryIdempotent ==
    /\ [](\A s1 \in stories, s2 \in stories : s1.hn_id = s2.hn_id => s1 = s2)
    /\ [][/\ stories \subseteq stories'
          /\ (last'.op = "create_story" /\ ~last'.raised)
             => /\ last'.ret_story \in stories'
                /\ last'.ret_story.hn_id = last'.hn_id
                /\ \A s \in stories :
                      s.hn_id = last'.hn_id
                      => (last'.ret_story = s /\ stories' = stories)]_vars

\* a second call with another title got the record of the first call
C6_Witness ==
    /\ last.op = "create_story"
    /\ ~last.raised
    /\ last.ret_story \in stories
    /\ last.ret_story.hn_id = last.hn_id
    /\ last.ret_story.title # last.title
    /\ Cardinality(stories) = 2

\* ------------------------------------------------ claims on the extraction
\* the rows stored under every forum ID, as (h, k) places
Places(tbl) == {<<h, k>> \in HnIds \X (1..MaxComments) : k <= Len(tbl[h])}

\* C1 (as claimed): every comment an extraction has written is either
\* completed with a payload, or error with no payload and no email.
C1_ExtractionShapes ==
    \A pl \in Places(comments) :
        LET c == comments[pl[1]][pl[2]]
        IN \/ c.processed_status = "pending"
           \/ c.processed_status = "completed" /\ c.structured_data # NULL
           \/ /\ c.processed_status = "error"
              /\ c.structured_data = NULL
              /\ c.email = NULL

\* C2 (as claimed): when the LLM call fails or its answer is no valid JSON of
\* the expected shape, the extraction does not raise and the comment is
\* stored as error with no payload, through the bulk and the single entry point.
C2_FailedExtractionStoresError ==
    (/\ last.op \in {"process_pending_comments", "process_single_comment"}
     /\ last.extracted = NULL
     /\ last.database_updated)
    => \A k \in 1..Len(comments[last.hn_id]) :
          /\ comments[last.hn_id][k].processed_status = "error"
          /\ comments[last.hn_id][k].structured_data = NULL

\* C3 (as claimed): the status starts at pending and changes exactly once; a
\* comment that is completed or error is never written again.
C3_StatusWrittenOnce ==
    [][/\ \A pl \in Places(comments') \ Places(comments) :
             comments'[pl[1]][pl[2]].processed_status = "pending"
       /\ \A pl \in Places(comments) :
             comments[pl[1]][pl[2]].processed_status # "pending"
             => comments'[pl[1]][pl[2]] = comments[pl[1]][pl[2]]]_vars

\* C3 (amended): the status starts at pending and never returns to pending
\* once it is completed or error; a bulk extraction invocation never writes a
\* comment that is already completed or error (a single-comment extraction does).
C3_StatusLeavesPendingForGood ==
    [][/\ \A pl \in Places(comments') \ Places(comments) :
             /\ comments'[pl[1]][pl[2]].processed_status = "pending"
             /\ comments'[pl[1]][pl[2]].structured_data = NULL
       /\ \A pl \in Places(comments) :
             comments[pl[1]][pl[2]].processed_status # "pending"
             => /\ comments'[pl[1]][pl[2]].processed_status
                      \in {"completed", "error"}
                /\ (\E r \in Runs : runs[r].pc = "running")
                   => comments'[pl[1]][pl[2]] = comments[pl[1]][pl[2]]]_vars

\* a bulk invocation has written a comment while another comment, extracted
\* before the invocation fetched its list, is not on the list
C3_Witness ==
    /\ runs[1].pc = "running"
    /\ runs[1].i > 1
    /\ \E h \in HnIds :
          /\ Stored(comments, h)
          /\ comments[h][1].processed_status # "pending"
          /\ \A k \in 1..Len(runs[1].pending_comments) :
                runs[1].pending_comments[k].hn_id # h

\* C10: process_single_comment for a forum ID that is not stored returns
\* success=false with "No comment found with HN ID <id>", calls the LLM not at
\* all and writes nothing to the store.
C10_SingleNotFoundNoEffect ==
    [][(/\ last'.op = "process_single_comment"
        /\ last'.up
        /\ ~Stored(comments, last'.hn_id))
       => /\ last'.success = FALSE
          /\ last'.error = [msg |-> "No comment found with HN ID",
                            id |-> last'.hn_id]
          /\ llm_calls' = llm_calls
          /\ comments' = comments
          /\ stories' = stories]_vars

\* the not-found answer, given on a store that holds other comments and
\* after earlier LLM calls
C10_Witness ==
    /\ last.op = "process_single_comment"
    /\ last.up
    /\ ~last.success
    /\ last.error = [msg |-> "No comment found with HN ID", id |-> last.hn_id]
    /\ ~Stored(comments, last.hn_id)
    /\ \E h \in HnIds : Stored(comments, h)
    /\ llm_calls > 0

\* the positions of the fetched list that invocation r has attempted and
\* whose comment is stored as completed
CompletedBy(r) ==
    {k \in 1..(runs[r].i - 1) :
        LET h == runs[r].pending_comments[k].hn_id
        IN Stored(comments, h) /\ comments[h][1].processed_status = "completed"}

\* C13: a bulk extraction run attempts every pending comment it fetched, also
\* after failures on earlier ones; successful_count + failed_count + the
\* number of captured exceptions is the number of comments attempted, which
\* at the return is the number fetched, and successful_count is the number of
\* comments the run has stored as completed.
C13_CountersPartition ==
    /\ [](runs[1].pc = "running"
          => /\ runs[1].successful_count + runs[1].failed_count
                   + runs[1].errors = runs[1].i - 1
             /\ runs[1].successful_count = Cardinality(CompletedBy(1))
             /\ \A k \in 1..Len(runs[1].pending_comments) :
                   k >= runs[1].i
                   => comments[runs[1].pending_comments[k].hn_id][1]
                         .processed_status = "pending")
    /\ [][(runs[1].pc = "running" /\ runs'[1].pc = "done")
          => /\ runs[1].i - 1 = Len(runs[1].pending_comments)
             /\ runs'[1].successful_count + runs'[1].failed_count
                   + runs'[1].errors = Len(runs[1].pending_comments)
             /\ runs'[1].successful_count = Cardinality(CompletedBy(1))]_vars

\* a run over two comments that failed on the first and completed the second
C13_Witness ==
    /\ runs[1].pc = "running"
    /\ Len(runs[1].pending_comments) = 2
    /\ runs[1].i = 3
    /\ runs[1].failed_count = 1
    /\ runs[1].successful_count = 1
    /\ comments[runs[1].pending_comments[1].hn_id][1].processed_status = "error"
    /\ comments[runs[1].pending_comments[2].hn_id][1].processed_status
          = "completed"

\* C17 (as claimed): the stored email agrees with the stored payload: a
\* completed comment has the email of its current payload (null when the
\* payload has none), and a comment with no payload has no email.
C17_EmailAgreesWithPayload ==
    \A pl \in Places(comments) :
        LET c == comments[pl[1]][pl[2]]
        IN /\ c.structured_data = NULL => c.email = NULL
           /\ (c.processed_status = "completed" /\ c.structured_data # NULL)
              => c.email = EmailOf(c.structured_data)

\* ------------------------------------------------- overlapping invocations
\* Bulk extraction invocations served by different server processes (or
\* started outside the server) share nothing but the store: invocation r can
\* start while the invocations below r are inside their loops, and the steps
\* of the running invocations interleave.
NextOverlap ==
    \/ Quiet /\ \E ids \in PendingLists : IngestThread(ids)
    \/ \E r \in Runs, up \in BOOLEAN :
          /\ \A q \in 1..(r - 1) : runs[q].pc = "running"
          /\ BulkStart(r, up)
    \/ \E r \in Runs, outcome \in LLMOutcomes, f \in WriteFaults :
          BulkStep(r, outcome, f)
    \/ \E r \in Runs : BulkFinish(r)

SpecOverlap == Init /\ [][NextOverlap]_vars

\* C14: nothing excludes one bulk extraction invocation from another: an
\* invocation that starts selects every pending comment, the comments on the
\* lists of running invocations included, and a write that reaches the store
\* replaces status and payload whatever another invocation has written
\* meanwhile, so that the last writer's result stays (the witness: a
\* completed result overwritten by error).
C14_LastWriterWins ==
    [][/\ \A r \in Runs :
             (runs[r].pc # "running" /\ runs'[r].pc = "running")
             => runs'[r].pending_comments = PendingFrom(comments, 1)
       /\ (/\ last'.op = "process_pending_comments"
           /\ last'.fault = "none"
           /\ Stored(comments, last'.hn_id))
          => /\ last'.database_updated
             /\ comments'[last'.hn_id][1].structured_data = last'.extracted
             /\ comments'[last'.hn_id][1].processed_status =
                   IF last'.extracted = NULL THEN "error" ELSE "completed"]_vars

\* invocations 1 and 2 both selected the same comment and both called the LLM
\* for it; invocation 1 counted it as completed, then invocation 2 failed to
\* extract and wrote error, which is what the store holds
C14_Witness ==
    /\ runs[1].pc = "running" /\ runs[2].pc = "running"
    /\ runs[1].i = 2 /\ runs[2].i = 2
    /\ runs[1].pending_comments[1].hn_id = runs[2].pending_comments[1].hn_id
    /\ runs[1].successful_count = 1
    /\ runs[2].failed_count = 1
    /\ llm_calls = 2
    /\ LET h == runs[1].pending_comments[1].hn_id
       IN /\ comments[h][1].processed_status = "error"
          /\ comments[h][1].structured_data = NULL
          /\ last.hn_id = h
          /\ last.extracted = NULL

\* ---------------------------------------------------- the result write
\* the statuses and payloads the extraction passes to
\* _update_comment_with_results
WriteStatuses == {"completed", "error"}
WritePayloads == Payloads \cup {NULL}

\* a call of ClaudeProcessingService._update_comment_with_results
UpdateCommentWithResults(comment_id, structured_data, status, f) ==
    /\ LET u == update_comment_with_results(comments, comment_id,
                                            structured_data, status,
                                            Up1(f), Up2(f))
       IN /\ comments' = u.comments
          /\ last' = [NoLast EXCEPT !.op = "_update_comment_with_results",
                                    !.hn_id = comment_id,
                                    !.extracted = structured_data,
                                    !.status = status, !.fault = f,
                                    !.raised = u.raised,
                                    !.database_updated = u.ret,
                                    !.attempts = u.attempts]
    /\ UNCHANGED <<stories, ing, runs, llm_calls, http>>

NextUpdate ==
    \/ \E ids \in PendingLists : IngestThread(ids)
    \/ \E h \in HnIds, d \in WritePayloads, st \in WriteStatuses,
          f \in WriteFaults : UpdateCommentWithResults(h, d, st, f)

\* calls of _update_comment_with_results on ingested comments
SpecUpdate == Init /\ [][NextUpdate]_vars

\* C16: _update_comment_with_results never raises; when the status write
\* fails it attempts exactly one fallback write of status error with no
\* payload and returns False whether or not the fallback succeeds; when the
\* fallback succeeds the comment is stored as error with no payload and no
\* email, also when the extraction had produced data.
C16_UpdateNeverRaises ==
    [][last'.op = "_update_comment_with_results"
       => LET h == last'.hn_id
          IN /\ ~last'.raised
             /\ last'.fault = "none" => last'.attempts = 1
             /\ last'.fault # "none"
                => /\ last'.attempts = 2
                   /\ last'.database_updated = FALSE
             /\ last'.fault = "both" => comments' = comments
             /\ last'.fault = "primary"
                => /\ \A g \in HnIds \ {h} : comments'[g] = comments[g]
                   /\ Len(comments'[h]) = Len(comments[h])
                   /\ \A k \in 1..Len(comments'[h]) :
                         comments'[h][k] =
                            [comments[h][k] EXCEPT
                                !.processed_status = "error",
                                !.structured_data = NULL,
                                !.email = NULL]]_vars

\* the status write of an extracted payload with an email failed and the
\* fallback write went through: the comment is stored as error with no
\* payload and no email, and the call returned False
C16_Witness ==
    /\ last.op = "_update_comment_with_results"
    /\ last.fault = "primary"
    /\ last.status = "completed"
    /\ last.extracted = "job_with_email"
    /\ last.attempts = 2
    /\ ~last.database_updated
    /\ Stored(comments, last.hn_id)
    /\ comments[last.hn_id][1].processed_status = "error"
    /\ comments[last.hn_id][1].structured_data = NULL
    /\ comments[last.hn_id][1].email = NULL

\* ------------------------------------------------------------ HTTP boundary
\* test_process_hiring_thread up to its try block: HNCronService() creates
\* the forum-API client (the connection pool) and then the store handle;
\* HNDatabase() raises DatabaseError when the environment names no store or
\* the connection fails (db_ok false), and the constructor is called outside
\* the try block
TestProcessHiringThreadBegin(story_id, db_ok) ==
    /\ http.pc = "idle"
    /\ http' = IF db_ok
               THEN [HttpIdle EXCEPT !.pc = "in_ingest",
                                     !.endpoint = "test_process_hiring_thread",
                                     !.hn_id = story_id, !.pool = "open"]
               ELSE [HttpIdle EXCEPT !.endpoint = "test_process_hiring_thread",
                                     !.hn_id = story_id, !.pool = "open",
                                     !.outcome = "uncaught", !.failed = TRUE]
    /\ ing' = IngIdle
    /\ UNCHANGED <<stories, comments, runs, llm_calls, last>>

\* test_process_hiring_thread after the workflow returned or raised: close
\* the service and return the body
TestProcessHiringThreadReturn ==
    /\ http.pc = "in_ingest"
    /\ ing.pc \in {"done", "raised"}
    /\ http' = [http EXCEPT !.pc = "idle", !.pool = "closed",
                            !.outcome = "returned",
                            !.success = (ing.pc = "done"),
                            !.error = IF ing.pc = "raised"
                                      THEN "API request failed" ELSE NULL,
                            !.failed = (ing.pc = "raised")]
    /\ UNCHANGED <<stories, comments, ing, runs, llm_calls, last>>

\* process_pending_comments (endpoint) up to its try block:
\* ClaudeProcessingService() creates the store handle outside the try block
ProcessPendingCommentsBegin(db_ok) ==
    /\ http.pc = "idle"
    /\ http' = IF db_ok
               THEN [HttpIdle EXCEPT !.pc = "in_bulk",
                                     !.endpoint = "process_pending_comments"]
               ELSE [HttpIdle EXCEPT !.endpoint = "process_pending_comments",
                                     !.outcome = "uncaught", !.failed = TRUE]
    /\ runs' = [runs EXCEPT ![1] = RunIdle]
    /\ UNCHANGED <<stories, comments, ing, llm_calls, last>>

\* process_pending_comments (endpoint) after the service method returned its
\* counters or raised
ProcessPendingCommentsReturn ==
    /\ http.pc = "in_bulk"
    /\ runs[1].pc \in {"done", "raised"}
    /\ http' = [http EXCEPT !.pc = "idle", !.outcome = "returned",
                            !.success = (runs[1].pc = "done"),
                            !.error = IF runs[1].pc = "raised"
                                      THEN "Error fetching pending comments"
                                      ELSE NULL,
                            !.failed = (runs[1].pc = "raised")]
    /\ UNCHANGED <<stories, comments, ing, runs, llm_calls, last>>

\* process_single_comment (endpoint): the service method catches every
\* exception and returns a result, which the endpoint wraps as the data of a
\* body with success True
ProcessSingleCommentEndpoint(hn_id, db_ok, outcome, up0, f) ==
    /\ http.pc = "idle"
    /\ llm_calls < MaxLLMCalls
    /\ IF ~db_ok
       THEN /\ http' = [HttpIdle EXCEPT !.endpoint = "process_single_comment",
                                        !.hn_id = hn_id, !.outcome = "uncaught",
                                        !.failed = TRUE]
            /\ UNCHANGED <<comments, llm_calls>>
       ELSE LET o == process_single_comment(comments, hn_id, outcome, up0,
                                            Up1(f), Up2(f))
            IN /\ comments' = o.comments
               /\ llm_calls' = IF o.llm_called THEN llm_calls + 1 ELSE llm_calls
               /\ http' = [HttpIdle EXCEPT
                              !.endpoint = "process_single_comment",
                              !.hn_id = hn_id, !.outcome = "returned",
                              !.success = TRUE,
                              !.failed = ~o.result.success]
    /\ UNCHANGED <<stories, ing, runs, last>>

\* the three workflow endpoints, one invocation after the other
NextHttp ==
    \/ \E s \in ThreadIds, db_ok \in BOOLEAN : TestProcessHiringThreadBegin(s, db_ok)
    \/ /\ http.pc = "in_ingest"
       /\ ing.pc = "idle"
       /\ \E kind \in StoryKinds, kids \in PendingLists, up \in BOOLEAN :
             ProcessHiringThread(http.hn_id, kind, kids, up)
    \/ http.pc = "in_ingest" /\ \E kind \in CommentKinds : FetchCommentsBatchStep(kind)
    \/ http.pc = "in_ingest" /\ \E up \in BOOLEAN : ProcessHiringThreadFinish(up)
    \/ TestProcessHiringThreadReturn
    \/ \E db_ok \in BOOLEAN : ProcessPendingCommentsBegin(db_ok)
    \/ /\ http.pc = "in_bulk"
       /\ runs[1].pc = "idle"
       /\ \E up \in BOOLEAN : BulkStart(1, up)
    \/ /\ http.pc = "in_bulk"
       /\ \E outcome \in LLMOutcomes, f \in WriteFaults : BulkStep(1, outcome, f)
    \/ http.pc = "in_bulk" /\ BulkFinish(1)
    \/ ProcessPendingCommentsReturn
    \/ \E h \in HnIds, db_ok \in BOOLEAN, outcome \in LLMOutcomes,
          up0 \in BOOLEAN, f \in WriteFaults :
          ProcessSingleCommentEndpoint(h, db_ok, outcome, up0, f)

SpecHttp == Init /\ [][NextHttp]_vars

\* ------------------------------------------- claims on the HTTP boundary
\* C11 (as claimed): whenever an invocation of the ingestion endpoint is
\* over, by a returned body or by an exception (a failure while constructing
\* the service included), the connection pool it created is closed.
C11_PoolReleased ==
    (http.endpoint = "test_process_hiring_thread" /\ http.outcome # "none")
    => http.pool = "closed"

\* C12 (as claimed): every failure of a workflow triggered through an
\* endpoint (a comment not found and a failure while constructing the service
\* included) gives a body with top-level success false and an error message,
\* never a body with success true and never an uncaught exception.
C12_FailuresAnswerSuccessFalse ==
    http.failed => /\ http.outcome = "returned"
                   /\ http.success = FALSE
                   /\ http.error # NULL

====
